---- MODULE Spec2Model ----
(***************************************************************************)
(* Model of the zerologr adapter (package zerologr): a logr.Logger built   *)
(* on a zerolog.Logger.  The repository carries two revisions of the       *)
(* adapter, src/zerologr.go and src/unnamed/part_001; they share clone,    *)
(* copySlice, add, Error, V, WithName and WithValues and differ in Enabled *)
(* and Info.  The variable `revision' selects which of the two is running. *)
(*                                                                         *)
(* Go values of type interface{} are records [type, i, s, l]; a Go slice   *)
(* is a window [arr, len, cap] on a backing array kept in `heap', so that  *)
(* the aliasing that clone() is there to prevent can be expressed.         *)
(***************************************************************************)
EXTENDS Integers, Sequences, FiniteSets, TLC

VARIABLES
    loggers,    \* the logger values created so far, in creation order
    heap,       \* backing arrays of the `values' slices
    gLevel,     \* zerolog's process-wide level, read by zerolog.GlobalLevel()
    revision,   \* which revision of the adapter is running
    hist,       \* for each logger, the call that built it
    last        \* the last call made: its arguments, result and event

vars == <<loggers, heap, gLevel, revision, hist, last>>

-----------------------------------------------------------------------------
(* Bounds of the model.                                                    *)

MaxLoggers == 2
MaxChain == 3
MaxDerived == 4
MaxTree == 5
MaxGlobalLevel == 4
MaxLen == 6

-----------------------------------------------------------------------------
(* Program constants.                                                      *)

debugVerbosity == 2
traceVerbosity == 8
oldTraceVerbosity == 7

TraceLevel == -1
DebugLevel == 0
InfoLevel == 1
ErrorLevel == 3

Revisions == {"zerologr.go", "part_001"}

\* zerolog.SetGlobalLevel accepts any zerolog.Level; the levels below
\* TraceLevel behave as TraceLevel does, so the range starts there.
GlobalLevels == TraceLevel .. MaxGlobalLevel

-----------------------------------------------------------------------------
(* interface{} values.                                                     *)

NilVal == [type |-> "nil", i |-> 0, s |-> "", l |-> <<>>]
IntVal(n) == [type |-> "int", i |-> n, s |-> "", l |-> <<>>]
StrVal(str) == [type |-> "string", i |-> 0, s |-> str, l |-> <<>>]
SliceVal(seq) == [type |-> "slice", i |-> 0, s |-> "", l |-> seq]

OddArgsErr == "odd number of arguments passed as key-value pairs for logging"
NonStringKeyErr == "non-string key argument passed to logging, ignoring all later arguments"

-----------------------------------------------------------------------------
(* The zerolog event builder, as the adapter uses it.  A *zerolog.Event is *)
(* nil when the logger does not admit the level; every method of a nil     *)
(* event does nothing.                                                     *)

NoEvent == [live |-> FALSE, level |-> 0, fields |-> <<>>, stack |-> FALSE,
            msg |-> "", done |-> FALSE]

\* l.l.Info(), l.l.Debug(), l.l.Trace(), l.l.Error(): an event of that level,
\* or nil when the level is below zerolog.GlobalLevel().  The logger's own
\* level is that of the default sink of NewWithOptions, which admits every
\* level.
LiveEvent(level) ==
    [live |-> TRUE, level |-> level, fields |-> <<>>, stack |-> FALSE,
     msg |-> "", done |-> FALSE]

newEvent(level) == IF level < gLevel THEN NoEvent ELSE LiveEvent(level)

Attach(e, key, val) ==
    IF ~e.live THEN e
    ELSE [e EXCEPT !.fields = Append(@, [key |-> key, val |-> val])]

\* e.Int(key, n)
EvInt(e, key, n) == Attach(e, key, IntVal(n))

\* e.Str(key, s)
EvStr(e, key, str) == Attach(e, key, StrVal(str))

\* e.Interface(key, v)
Interface(e, key, v) == Attach(e, key, v)

\* e.Err(err): the error's message under zerolog's error field; nothing for nil
Err(e, err) == IF err = "" THEN e ELSE Attach(e, "error", StrVal(err))

\* e.AnErr(key, err): the error's message under key
AnErr(e, key, err) == Attach(e, key, StrVal(err))

\* e.Stack(): marks the event for stack capture; it attaches no keyed field
Stack(e) == IF ~e.live THEN e ELSE [e EXCEPT !.stack = TRUE]

\* e.Msg(msg): finalizes the event and writes it
Msg(e, msg) == IF ~e.live THEN e ELSE [e EXCEPT !.msg = msg, !.done = TRUE]

\* the lines the sink has written for an event
Written(e) == IF e.live /\ e.done THEN <<e>> ELSE <<>>

-----------------------------------------------------------------------------
(* add: key-value pairs into event fields.                                 *)

\* addPairs without the return after a key that is not a string: the pair is
\* reported and the walk goes on
RECURSIVE addPairsKeepGoing(_, _, _)
addPairsKeepGoing(e, keysAndVals, i) ==
    IF i > Len(keysAndVals) THEN e
    ELSE LET key == keysAndVals[i]
             val == keysAndVals[i + 1]
         IN  IF key.type # "string"
             THEN addPairsKeepGoing(Stack(AnErr(Interface(e, "invalid key", key),
                                                "zerologr-err", NonStringKeyErr)),
                                    keysAndVals, i + 2)
             ELSE addPairsKeepGoing(Interface(e, key.s, val), keysAndVals, i + 2)

RECURSIVE addPairs(_, _, _)
addPairs(e, keysAndVals, i) ==
    IF i > Len(keysAndVals) THEN e
    ELSE LET key == keysAndVals[i]
             val == keysAndVals[i + 1]
         IN  IF key.type # "string"
             THEN Stack(AnErr(Interface(e, "invalid key", key),
                              "zerologr-err", NonStringKeyErr))
             ELSE addPairs(Interface(e, key.s, val), keysAndVals, i + 2)

\* add that reports an odd list and then still encodes its complete pairs
addOddKeepsPairs(e, keysAndVals) ==
    IF Len(keysAndVals) % 2 # 0
    THEN addPairs(Stack(AnErr(Interface(e, "args", SliceVal(keysAndVals)),
                              "zerologr-err", OddArgsErr)),
                  SubSeq(keysAndVals, 1, Len(keysAndVals) - 1), 1)
    ELSE addPairs(e, keysAndVals, 1)

add(e, keysAndVals) ==
    IF Len(keysAndVals) % 2 # 0
    THEN Stack(AnErr(Interface(e, "args", SliceVal(keysAndVals)),
                     "zerologr-err", OddArgsErr))
    ELSE addPairs(e, keysAndVals, 1)

-----------------------------------------------------------------------------
(* Slices.                                                                 *)

NilSlice == [arr |-> 0, len |-> 0, cap |-> 0]

\* the elements a slice shows, read from backing arrays h
Elems(h, s) == IF s.len = 0 THEN <<>> ELSE SubSeq(h[s.arr], 1, s.len)

Pad(seq, n) == seq \o [k \in 1 .. (n - Len(seq)) |-> NilVal]

\* copySlice that hands back the slice it was given
copySliceShared(h, in) == [heap |-> h, slice |-> in]

\* make([]interface{}, len(in)) then copy(out, in): a fresh array of
\* capacity len(in)
copySlice(h, in) ==
    IF in.len = 0 THEN [heap |-> h, slice |-> NilSlice]
    ELSE [heap |-> Append(h, Elems(h, in)),
          slice |-> [arr |-> Len(h) + 1, len |-> in.len, cap |-> in.len]]

\* capacity the Go runtime gives a slice that has to grow to `need' (below
\* 256 elements; the allocator's size classes leave the capacities reached
\* here as they are)
GrowCap(cap, need) == IF need > 2 * cap THEN need ELSE 2 * cap

\* append(s, kvList...): in place when the capacity allows, else into a
\* grown copy
append(h, s, kvList) ==
    LET n == Len(kvList)
        need == s.len + n
    IN  IF n = 0 THEN [heap |-> h, slice |-> s]
        ELSE IF need <= s.cap
        THEN [heap |-> [h EXCEPT ![s.arr] =
                          [k \in 1 .. s.cap |->
                              IF k > s.len /\ k <= need THEN kvList[k - s.len]
                              ELSE @[k]]],
              slice |-> [s EXCEPT !.len = need]]
        ELSE [heap |-> Append(h, Pad(Elems(h, s) \o kvList, GrowCap(s.cap, need))),
              slice |-> [arr |-> Len(h) + 1, len |-> need,
                         cap |-> GrowCap(s.cap, need)]]

-----------------------------------------------------------------------------
(* The logger value and its methods.  A method that builds a logger        *)
(* returns the new backing arrays with it.                                 *)

\* NewWithOptions: sink is the *zerolog.Logger used (a default one when
\* opts.Logger is nil)
NewLogger(sink, name) ==
    [l |-> sink, verbosity |-> 0, prefix |-> name, values |-> NilSlice]

clone(h, l) ==
    LET c == copySlice(h, l.values)
    IN  [heap |-> c.heap, logger |-> [l EXCEPT !.values = c.slice]]

\* the zerolog level a verbosity maps to (part_001)
Tier(verbosity) ==
    IF verbosity < debugVerbosity THEN InfoLevel
    ELSE IF verbosity < traceVerbosity THEN DebugLevel
    ELSE TraceLevel

\* the same in zerologr.go
TierOld(level) ==
    IF level < debugVerbosity THEN InfoLevel
    ELSE IF level < oldTraceVerbosity THEN DebugLevel
    ELSE TraceLevel

\* logger.Enabled (part_001)
Enabled(l) == ~(Tier(l.verbosity) < gLevel)

\* logger.Enabled (zerologr.go)
EnabledOld(l) == ~(TierOld(l.verbosity) < gLevel)

WithPrefix(e, l) == IF l.prefix # "" THEN EvStr(e, "name", l.prefix) ELSE e

\* Info that encodes the accumulated fields and the call-site pairs as one list
InfoOnePass(h, l, msg, keysAndVals) ==
    IF Enabled(l)
    THEN Msg(add(WithPrefix(EvInt(newEvent(Tier(l.verbosity)),
                                  "verbosity", l.verbosity), l),
                 Elems(h, l.values) \o keysAndVals),
             msg)
    ELSE NoEvent

\* logger.Info (part_001); h are the backing arrays
Info(h, l, msg, keysAndVals) ==
    IF Enabled(l)
    THEN Msg(add(add(WithPrefix(EvInt(newEvent(Tier(l.verbosity)),
                                    "verbosity", l.verbosity), l),
                     Elems(h, l.values)),
                 keysAndVals),
             msg)
    ELSE NoEvent

\* Info of zerologr.go without the Enabled gate
InfoOldUngated(h, l, msg, keysAndVals) ==
    Msg(add(add(WithPrefix(EvInt(newEvent(InfoLevel), "level", l.verbosity), l),
                Elems(h, l.values)),
            keysAndVals),
        msg)

\* logger.Info (zerologr.go)
InfoOld(h, l, msg, keysAndVals) ==
    IF EnabledOld(l)
    THEN Msg(add(add(WithPrefix(EvInt(newEvent(InfoLevel), "level", l.verbosity), l),
                     Elems(h, l.values)),
                 keysAndVals),
             msg)
    ELSE NoEvent

\* Error gated by Enabled, as Info is
ErrorGated(h, l, err, msg, keysAndVals) ==
    IF Enabled(l)
    THEN Msg(add(add(WithPrefix(Err(newEvent(ErrorLevel), err), l),
                     Elems(h, l.values)),
                 keysAndVals),
             msg)
    ELSE NoEvent

\* logger.Error (both revisions)
Error(h, l, err, msg, keysAndVals) ==
    Msg(add(add(WithPrefix(Err(newEvent(ErrorLevel), err), l),
                Elems(h, l.values)),
            keysAndVals),
        msg)

\* V that clamps a negative verbosity to 0
VClamped(h, l, verbosity) ==
    LET new == clone(h, l)
    IN  [heap |-> new.heap,
         logger |-> [new.logger EXCEPT !.verbosity = IF verbosity < 0 THEN 0 ELSE verbosity]]

\* logger.V
V(h, l, verbosity) ==
    LET new == clone(h, l)
    IN  [heap |-> new.heap, logger |-> [new.logger EXCEPT !.verbosity = verbosity]]

\* WithName that puts the separator before every segment
WithNameAlwaysSeparated(h, l, name) ==
    LET new == clone(h, l)
    IN  [heap |-> new.heap, logger |-> [new.logger EXCEPT !.prefix = l.prefix \o "/" \o name]]

\* logger.WithName
WithName(h, l, name) ==
    LET new == clone(h, l)
        p == IF Len(l.prefix) > 0 THEN l.prefix \o "/" ELSE new.logger.prefix
    IN  [heap |-> new.heap, logger |-> [new.logger EXCEPT !.prefix = p \o name]]

\* logger.WithValues
WithValues(h, l, kvList) ==
    LET new == clone(h, l)
        a == append(new.heap, new.logger.values, kvList)
    IN  [heap |-> a.heap, logger |-> [new.logger EXCEPT !.values = a.slice]]

-----------------------------------------------------------------------------
(* Calls.  `last' records the call just made: the receiver (index into     *)
(* loggers), its arguments, the value it returned and the event it built.  *)
(* `hist' keeps, for each logger, the call that built it.                  *)

Call(op, self, n, name, kv, msg, err, ret, e) ==
    [op |-> op, self |-> self, n |-> n, name |-> name, kv |-> kv,
     msg |-> msg, err |-> err, ret |-> ret, e |-> e, out |-> Written(e)]

NoCall == Call("none", 0, 0, "", <<>>, "", "", FALSE, NoEvent)

Built(op, parent, n, name, kv) ==
    [op |-> op, parent |-> parent, n |-> n, name |-> name, kv |-> kv]

\* the sink a call of NewWithOptions without a Logger builds for itself
DefaultSink == 100 + Len(loggers)

\* NewWithOptions(Options{Name: name, Logger: sink}); sink 0 is nil
DoNewWithOptions(name, sink) ==
    /\ loggers' = Append(loggers,
                         NewLogger(IF sink = 0 THEN DefaultSink ELSE sink, name))
    /\ hist' = Append(hist, Built("NewWithOptions", 0, sink, name, <<>>))
    /\ last' = Call("NewWithOptions", 0, sink, name, <<>>, "", "", FALSE, NoEvent)
    /\ UNCHANGED <<heap, gLevel, revision>>

Derived(op, i, r, n, name, kv) ==
    /\ loggers' = Append(loggers, r.logger)
    /\ heap' = r.heap
    /\ hist' = Append(hist, Built(op, i, n, name, kv))
    /\ last' = Call(op, i, n, name, kv, "", "", FALSE, NoEvent)
    /\ UNCHANGED <<gLevel, revision>>

DoV(i, verbosity) ==
    /\ i \in 1 .. Len(loggers)
    /\ Derived("V", i, V(heap, loggers[i], verbosity), verbosity, "", <<>>)

DoWithName(i, name) ==
    /\ i \in 1 .. Len(loggers)
    /\ Derived("WithName", i, WithName(heap, loggers[i], name), 0, name, <<>>)

DoWithValues(i, kvList) ==
    /\ i \in 1 .. Len(loggers)
    /\ Derived("WithValues", i, WithValues(heap, loggers[i], kvList), 0, "", kvList)

\* zerolog.SetGlobalLevel(level), called by the host program
SetGlobalLevel(level) ==
    /\ gLevel # level
    /\ gLevel' = level
    /\ last' = Call("SetGlobalLevel", 0, level, "", <<>>, "", "", FALSE, NoEvent)
    /\ UNCHANGED <<loggers, heap, revision, hist>>

\* l.Enabled() in the running revision
IsEnabled(l) == IF revision = "part_001" THEN Enabled(l) ELSE EnabledOld(l)

DoEnabled(i) ==
    /\ i \in 1 .. Len(loggers)
    /\ last' = Call("Enabled", i, 0, "", <<>>, "", "", IsEnabled(loggers[i]), NoEvent)
    /\ UNCHANGED <<loggers, heap, gLevel, revision, hist>>

DoInfo(i, msg, keysAndVals) ==
    /\ i \in 1 .. Len(loggers)
    /\ last' = Call("Info", i, 0, "", keysAndVals, msg, "", FALSE,
                    IF revision = "part_001" THEN Info(heap, loggers[i], msg, keysAndVals)
                    ELSE InfoOld(heap, loggers[i], msg, keysAndVals))
    /\ UNCHANGED <<loggers, heap, gLevel, revision, hist>>

DoError(i, err, msg, keysAndVals) ==
    /\ i \in 1 .. Len(loggers)
    /\ last' = Call("Error", i, 0, "", keysAndVals, msg, err, FALSE,
                    Error(heap, loggers[i], err, msg, keysAndVals))
    /\ UNCHANGED <<loggers, heap, gLevel, revision, hist>>

\* add(e, keysAndVals) on its own, on the event and list that `last' holds
DoAdd ==
    /\ last.op = "input"
    /\ last' = Call("add", 0, last.n, "", last.kv, "", "", FALSE, add(last.e, last.kv))
    /\ UNCHANGED <<loggers, heap, gLevel, revision, hist>>

-----------------------------------------------------------------------------
(* Spec: a program that builds a root logger and loggers derived from it,  *)
(* changes the global level, and logs.                                     *)

Names == {"", "r"}
Sinks == {0, 1}
Verbosities == {debugVerbosity - 1, debugVerbosity, traceVerbosity - 1, traceVerbosity}
Segments == {"a"}
KVLists == {<<StrVal("a"), IntVal(1)>>, <<StrVal("a")>>, <<IntVal(1)>>}
CallKVs == {<<>>, <<StrVal("a"), IntVal(1)>>, <<StrVal("k1"), IntVal(1), StrVal("k2")>>,
            <<IntVal(42), StrVal("v"), StrVal("k2"), StrVal("v2")>>}
Errs == {"boom"}
Msgs == {"hello"}

Init ==
    /\ loggers = <<>>
    /\ heap = <<>>
    /\ gLevel \in GlobalLevels
    /\ revision \in Revisions
    /\ hist = <<>>
    /\ last = NoCall

Build ==
    /\ Len(loggers) < MaxLoggers
    /\ \/ Len(loggers) = 0 /\ \E name \in Names, sink \in Sinks : DoNewWithOptions(name, sink)
       \/ \E i \in 1 .. Len(loggers), v \in Verbosities : DoV(i, v)
       \/ \E i \in 1 .. Len(loggers), name \in Segments : DoWithName(i, name)
       \/ \E i \in 1 .. Len(loggers), kv \in KVLists : DoWithValues(i, kv)

Log ==
    \/ \E i \in 1 .. Len(loggers) : DoEnabled(i)
    \/ \E i \in 1 .. Len(loggers), msg \in Msgs, kv \in CallKVs : DoInfo(i, msg, kv)
    \/ \E i \in 1 .. Len(loggers), err \in Errs, msg \in Msgs, kv \in CallKVs :
          DoError(i, err, msg, kv)

Next ==
    \/ Build
    \/ \E level \in GlobalLevels : SetGlobalLevel(level)
    \/ Log

Spec == Init /\ [][Next]_vars

-----------------------------------------------------------------------------
(* SpecPasses: chains of WithValues calls, logged through Info and Error.  *)

PassKVs == {<<StrVal("a")>>, <<IntVal(1)>>, <<StrVal("b"), IntVal(2)>>}
PassCallKVs == {<<StrVal("c"), IntVal(3)>>, <<StrVal("k1"), IntVal(1), StrVal("k2")>>,
                <<IntVal(42), StrVal("v")>>}

NextPasses ==
    \/ /\ Len(loggers) < MaxChain
       /\ \/ Len(loggers) = 0 /\ DoNewWithOptions("", 0)
          \/ \E i \in 1 .. Len(loggers), kv \in PassKVs : DoWithValues(i, kv)
    \/ \E i \in 1 .. Len(loggers), msg \in Msgs, kv \in PassCallKVs : DoInfo(i, msg, kv)
    \/ \E i \in 1 .. Len(loggers), err \in Errs, msg \in Msgs, kv \in PassCallKVs :
          DoError(i, err, msg, kv)

SpecPasses == Init /\ [][NextPasses]_vars

-----------------------------------------------------------------------------
(* SpecDerive: trees of loggers under several roots.                       *)

InitDerive ==
    /\ loggers = <<>>
    /\ heap = <<>>
    /\ gLevel = DebugLevel
    /\ revision \in Revisions
    /\ hist = <<>>
    /\ last = NoCall

DeriveVerbosities == {-1, traceVerbosity + 1}
DeriveSegments == {"", "a", "b"}
DeriveKVs == {<<StrVal("a"), IntVal(1)>>, <<StrVal("b")>>}

NextDerive ==
    /\ Len(loggers) < MaxDerived
    /\ \/ \E name \in Names, sink \in Sinks : DoNewWithOptions(name, sink)
       \/ \E i \in 1 .. Len(loggers), v \in DeriveVerbosities : DoV(i, v)
       \/ \E i \in 1 .. Len(loggers), name \in DeriveSegments : DoWithName(i, name)
       \/ \E i \in 1 .. Len(loggers), kv \in DeriveKVs : DoWithValues(i, kv)

SpecDerive == InitDerive /\ [][NextDerive]_vars

-----------------------------------------------------------------------------
(* SpecAlias: deep trees of one root, to exercise the backing arrays.      *)

AliasKVs == {<<StrVal("a"), IntVal(1)>>, <<StrVal("b"), IntVal(2)>>, <<StrVal("c")>>,
             <<StrVal("k1"), IntVal(1), StrVal("k2")>>}

NextAlias ==
    /\ Len(loggers) < MaxTree
    /\ \/ Len(loggers) = 0 /\ DoNewWithOptions("", 0)
       \/ \E i \in 1 .. Len(loggers) : DoV(i, debugVerbosity)
       \/ \E i \in 1 .. Len(loggers) : DoWithName(i, "a")
       \/ \E i \in 1 .. Len(loggers), kv \in AliasKVs : DoWithValues(i, kv)

SpecAlias == InitDerive /\ [][NextAlias]_vars

-----------------------------------------------------------------------------
(* SpecAdd: add applied to every list of at most MaxLen values, on an      *)
(* event that is live (n = 1) or nil (n = 0).                              *)

Atoms == {StrVal("k1"), StrVal("k2"), StrVal("v"), IntVal(1), IntVal(42)}

RECURSIVE Lists(_)
Lists(n) ==
    IF n = 0 THEN {<<>>}
    ELSE Lists(n - 1) \cup {Append(s, a) : s \in {t \in Lists(n - 1) : Len(t) = n - 1},
                                           a \in Atoms}

InitAdd ==
    /\ loggers = <<>>
    /\ heap = <<>>
    /\ gLevel = DebugLevel
    /\ revision \in Revisions
    /\ hist = <<>>
    /\ \E kv \in Lists(MaxLen), n \in {0, 1} :
          last = Call("input", 0, n, "", kv, "", "", FALSE,
                      IF n = 1 THEN LiveEvent(InfoLevel) ELSE NoEvent)

NextAdd == DoAdd

SpecAdd == InitAdd /\ [][NextAdd]_vars

-----------------------------------------------------------------------------
(* Vocabulary of the properties.                                           *)

\* the tier of a verbosity, as the specification states it
ClaimTier(v) == IF v < 2 THEN InfoLevel ELSE IF v < 8 THEN DebugLevel ELSE TraceLevel

Receiver == loggers[last.self]

Accumulated(i) == Elems(heap, loggers[i].values)

WellFormed(list) ==
    /\ Len(list) % 2 = 0
    /\ \A k \in 1 .. Len(list) : k % 2 = 1 => list[k].type = "string"

\* the fields of the first n pairs of a list
PairFields(list, n) == [k \in 1 .. n |-> [key |-> list[2 * k - 1].s, val |-> list[2 * k]]]

Keys(e) == {e.fields[k].key : k \in 1 .. Len(e.fields)}

Count(e, key) == Cardinality({k \in 1 .. Len(e.fields) : e.fields[k].key = key})

\* the key-value lists handed to WithValues on the way from the root to logger i
RECURSIVE PathValues(_)
PathValues(i) ==
    IF hist[i].parent = 0 THEN <<>>
    ELSE PathValues(hist[i].parent) \o hist[i].kv

\* the root's name, if any, and the segments handed to WithName on the way to i
RECURSIVE PathSegments(_)
PathSegments(i) ==
    IF hist[i].parent = 0 THEN (IF hist[i].name = "" THEN <<>> ELSE <<hist[i].name>>)
    ELSE IF hist[i].op = "WithName" THEN Append(PathSegments(hist[i].parent), hist[i].name)
    ELSE PathSegments(hist[i].parent)

RECURSIVE Join(_)
Join(segs) ==
    IF Len(segs) = 0 THEN ""
    ELSE IF Len(segs) = 1 THEN segs[1]
    ELSE Join(SubSeq(segs, 1, Len(segs) - 1)) \o "/" \o segs[Len(segs)]

RECURSIVE DropLeadingEmpty(_)
DropLeadingEmpty(segs) ==
    IF Len(segs) > 0 /\ segs[1] = "" THEN DropLeadingEmpty(Tail(segs)) ELSE segs

RECURSIVE Root(_)
Root(i) == IF hist[i].parent = 0 THEN i ELSE Root(hist[i].parent)

-----------------------------------------------------------------------------
(* Properties.                                                             *)

\* C1: Enabled returns true iff tier(v) is at or above the global level in
\* force at the call, with tier(v) = INFO for v < 2, DEBUG for 2 <= v < 8 and
\* TRACE for v >= 8.
C1_EnabledIffTierAtOrAboveGlobal ==
    last.op = "Enabled" => (last.ret <=> ClaimTier(Receiver.verbosity) >= gLevel)

C3_FieldsOfOwnPathOnly ==
    \A i \in 1 .. Len(loggers) : Accumulated(i) = PathValues(i)

C3_Witness ==
    \E i, j \in 1 .. Len(loggers) :
        /\ hist[i].op = "WithValues" /\ hist[i].kv = <<StrVal("a"), IntVal(1)>>
        /\ hist[j].op = "WithValues" /\ hist[j].kv = <<StrVal("b"), IntVal(2)>>
        /\ hist[i].parent = hist[j].parent
        /\ Len(Accumulated(hist[i].parent)) > 0
        /\ Accumulated(i) = Accumulated(hist[i].parent) \o <<StrVal("a"), IntVal(1)>>
        /\ Accumulated(j) = Accumulated(hist[j].parent) \o <<StrVal("b"), IntVal(2)>>

\* C4: add on a list of odd length attaches the whole list under "args", the
\* "zerologr-err" error and the stack mark, and none of the pairs.
C4_OddArity ==
    (last.op = "add" /\ last.n = 1 /\ Len(last.kv) % 2 = 1) =>
        /\ last.e.fields = <<[key |-> "args", val |-> SliceVal(last.kv)],
                             [key |-> "zerologr-err", val |-> StrVal(OddArgsErr)]>>
        /\ last.e.stack
        /\ \A k \in 1 .. Len(last.kv) :
              last.kv[k].type = "string" => last.kv[k].s \notin Keys(last.e)

C4_Witness ==
    /\ last.op = "add" /\ last.n = 1
    /\ last.kv = <<StrVal("k1"), IntVal(1), StrVal("k2")>>
    /\ Keys(last.e) = {"args", "zerologr-err"}

\* the position of the first key of an even list that is not a string, or
\* 0 if every key is one
FirstBadKey(list) ==
    LET bad == {k \in 1 .. Len(list) : k % 2 = 1 /\ list[k].type # "string"}
    IN  IF bad = {} THEN 0 ELSE CHOOSE k \in bad : \A m \in bad : k <= m

\* C5: add on a list of even length encodes the pairs in order up to the
\* first pair whose key is not a string; there it attaches the key under
\* "invalid key", the "zerologr-err" error and the stack mark, and stops.
\* With every key a string, every pair is a field, in order.
C5_NonStringKey ==
    (last.op = "add" /\ last.n = 1 /\ Len(last.kv) % 2 = 0) =>
        LET b == FirstBadKey(last.kv)
        IN  IF b = 0
            THEN /\ last.e.fields = PairFields(last.kv, Len(last.kv) \div 2)
                 /\ ~last.e.stack
            ELSE /\ last.e.fields =
                        PairFields(last.kv, (b - 1) \div 2) \o
                        <<[key |-> "invalid key", val |-> last.kv[b]],
                          [key |-> "zerologr-err", val |-> StrVal(NonStringKeyErr)]>>
                 /\ last.e.stack

C5_Witness ==
    /\ last.op = "add" /\ last.n = 1
    /\ last.kv = <<StrVal("k1"), IntVal(1), IntVal(42), StrVal("v"), StrVal("k2"), StrVal("v")>>
    /\ Keys(last.e) = {"k1", "invalid key", "zerologr-err"}

\* C6: Info writes exactly one event when Enabled is true at the call; when
\* it is false nothing is built, validated or written.
C6_InfoGatedByEnabled ==
    last.op = "Info" =>
        IF IsEnabled(Receiver)
        THEN Len(last.out) = 1 /\ last.out[1].msg = last.msg
        ELSE last.e = NoEvent /\ last.out = <<>>

C6_Witness ==
    /\ last.op = "Info"
    /\ ~IsEnabled(Receiver)
    /\ Receiver.verbosity < traceVerbosity
    /\ gLevel <= InfoLevel
    /\ ~WellFormed(last.kv)
    /\ last.out = <<>>

\* C7: the event Info writes is of the tier of the verbosity, starts with
\* the field "verbosity", then "name" if and only if the name is not empty,
\* then the accumulated pairs in order, then the call-site pairs in order,
\* duplicates kept, and carries the message.
C7_InfoEvent ==
    (last.op = "Info" /\ last.out # <<>>) =>
        LET e == last.out[1]
            acc == Accumulated(last.self)
            head == <<[key |-> "verbosity", val |-> IntVal(Receiver.verbosity)]>> \o
                    (IF Receiver.prefix # ""
                     THEN <<[key |-> "name", val |-> StrVal(Receiver.prefix)]>>
                     ELSE <<>>)
        IN  /\ e.level = ClaimTier(Receiver.verbosity)
            /\ e.msg = last.msg
            /\ SubSeq(e.fields, 1, Len(head)) = head
            /\ (WellFormed(acc) /\ WellFormed(last.kv)) =>
                   e.fields = head \o PairFields(acc, Len(acc) \div 2)
                                   \o PairFields(last.kv, Len(last.kv) \div 2)

\* C8, the step: WithName appends the segment, after a "/" when the name is
\* not empty.
WithNameStep(i) ==
    hist[i].op = "WithName" =>
        loggers[i].prefix =
            (IF loggers[hist[i].parent].prefix # ""
             THEN loggers[hist[i].parent].prefix \o "/" \o hist[i].name
             ELSE hist[i].name)

\* C8, as claimed: the step, and after any chain of WithName calls the name
\* is the root's name (if any) and the segments, in call order, joined by "/".
C8_NameIsJoinOfSegments ==
    \A i \in 1 .. Len(loggers) :
        WithNameStep(i) /\ loggers[i].prefix = Join(PathSegments(i))

\* C8, amended: the same, with the join taken after dropping the empty
\* segments that were added while the name was still empty.
C8_NameIsJoinOfSegmentsAfterLeadingEmpty ==
    \A i \in 1 .. Len(loggers) :
        WithNameStep(i) /\ loggers[i].prefix = Join(DropLeadingEmpty(PathSegments(i)))

C8_Witness ==
    \E i, j \in 1 .. Len(loggers) :
        /\ hist[i].op = "WithName" /\ hist[i].name = "a"
        /\ hist[j].op = "WithName" /\ hist[j].name = "b" /\ hist[j].parent = i
        /\ loggers[i].prefix = "a"
        /\ loggers[j].prefix = "a/b"

\* C9: V changes the verbosity only (to the value given, unclamped),
\* WithName the name only, WithValues the accumulated fields only (the
\* source's followed by the new list, whatever its length), and every logger
\* has the sink of its root.
C9_DerivationFrame ==
    \A i \in 1 .. Len(loggers) :
        LET p == hist[i].parent
        IN  /\ loggers[i].l = loggers[Root(i)].l
            /\ hist[i].op = "V" =>
                  /\ loggers[i].verbosity = hist[i].n
                  /\ loggers[i].prefix = loggers[p].prefix
                  /\ Accumulated(i) = Accumulated(p)
            /\ hist[i].op = "WithName" =>
                  /\ loggers[i].verbosity = loggers[p].verbosity
                  /\ Accumulated(i) = Accumulated(p)
            /\ hist[i].op = "WithValues" =>
                  /\ loggers[i].verbosity = loggers[p].verbosity
                  /\ loggers[i].prefix = loggers[p].prefix
                  /\ Accumulated(i) = Accumulated(p) \o hist[i].kv

C9_Witness ==
    \E i, j \in 1 .. Len(loggers) :
        /\ hist[i].op = "V" /\ hist[i].n < 0 /\ loggers[i].verbosity = hist[i].n
        /\ loggers[i].prefix # "" /\ Len(Accumulated(i)) % 2 = 1
        /\ hist[j].op = "NewWithOptions" /\ loggers[j].l # loggers[i].l

\* the fields one pass of add leaves on an empty event
Pass(list) == add(LiveEvent(InfoLevel), list).fields

\* C10: Info and Error encode the accumulated fields and the call-site pairs
\* in two passes, each checked on its whole list: what the call-site pass
\* attaches does not depend on the accumulated list, and an accumulated list
\* that is even with string keys, however the WithValues calls cut it, is
\* encoded as its pairs with no diagnostic.
C10_TwoIndependentPasses ==
    (last.op \in {"Info", "Error"} /\ last.out # <<>>) =>
        LET e == last.out[1]
            acc == Accumulated(last.self)
            n == Len(e.fields) - Len(Pass(acc)) - Len(Pass(last.kv))
        IN  /\ n >= 1
            /\ SubSeq(e.fields, n + 1, Len(e.fields)) = Pass(acc) \o Pass(last.kv)
            /\ WellFormed(last.kv) =>
                  SubSeq(e.fields, Len(e.fields) - Len(last.kv) \div 2 + 1, Len(e.fields))
                      = PairFields(last.kv, Len(last.kv) \div 2)
            /\ WellFormed(acc) =>
                  SubSeq(e.fields, n + 1, n + Len(acc) \div 2)
                      = PairFields(acc, Len(acc) \div 2)
            /\ Count(e, "zerologr-err") =
                  (IF WellFormed(acc) THEN 0 ELSE 1) + (IF WellFormed(last.kv) THEN 0 ELSE 1)

C10_Witness ==
    /\ last.op \in {"Info", "Error"} /\ last.out # <<>>
    /\ hist[last.self].op = "WithValues" /\ hist[last.self].kv = <<IntVal(1)>>
    /\ hist[hist[last.self].parent].op = "WithValues"
    /\ hist[hist[last.self].parent].kv = <<StrVal("a")>>
    /\ ~WellFormed(last.kv)
    /\ Count(last.out[1], "zerologr-err") = 1
    /\ [key |-> "a", val |-> IntVal(1)] \in {last.out[1].fields[k] : k \in 1 .. Len(last.out[1].fields)}

\* both lists malformed: the diagnostic is attached twice
TwoDiagnostics ==
    /\ last.op \in {"Info", "Error"} /\ last.out # <<>>
    /\ Count(last.out[1], "zerologr-err") = 2

TypeOK == Len(loggers) = Len(hist)

====
